---- MODULE Spec2Model ----
(***************************************************************************)
(* Model of the HTTP entry point of the Plausible Analytics MCP server     *)
(* (src/src/http-server.ts, src/src/firebase-analytics.ts): the key        *)
(* sanitizer used before a remote write, the analytics recorder with its   *)
(* dual-mode persistence, the /mcp handler with its per-credential server  *)
(* cache, and the tool handlers over the Plausible client                  *)
(* (src/src/tools/stats.ts, src/unnamed/part_000 .. part_002).             *)
(*                                                                         *)
(* Strings whose characters matter (mapping keys, API keys, URLs, header   *)
(* values) are sequences of one-character strings.  A JavaScript object    *)
(* used as a mapping is the sequence of its <<key, value>> entries in      *)
(* insertion order, with pairwise distinct keys.                           *)
(***************************************************************************)
EXTENDS Integers, Sequences, FiniteSets, TLC

VARIABLES
    \* sanitizeObject applied on its own
    sanInput,     \* the value handed to sanitizeObject
    sanOutput,    \* sanitizeObject(sanInput), once computed
    sanTwice,     \* sanitizeObject(sanOutput), once computed
    sanPc,        \* "input" | "once" | "twice" | "idle"
    \* a tool handler called on its own
    toolRun,      \* the call: its tool, the upstream response, its result
    \* the environment of the process
    clock,        \* wall clock, in ticks; one tick passes per request
    localFile,    \* ANALYTICS_FILE: Absent, Corrupt or File(JSON text)
    remoteData,   \* the remote document: Absent or File(document)
    \* the process
    processId,                  \* 0 for the first process, +1 per restart
    firebaseInitialized,        \* firebaseAnalytics.isInitialized()
    DEFAULT_PLAUSIBLE_API_KEY,  \* process.env.PLAUSIBLE_API_KEY || ''
    analytics,                  \* the module variable analytics
    loadPc,                     \* startup load: "remote" (awaiting) | "done"
    shutdown,                   \* gracefulShutdown: "none" | "saving" | "exited"
    pendingSaves,               \* saveAnalytics calls awaiting the remote write
    mcpServers,                 \* the Map credentialsKey -> server
    servers,                    \* the McpServer instances constructed so far
    requests,                   \* the /mcp requests handled so far
    \* history variables
    history,      \* the records of the log adopted at startup and every record
                  \* inserted since, oldest first
    tracked,      \* trackRequest calls made by this process
    fresh,        \* the state is the defaults plus recorded requests only
    saved,        \* the state handed to the last local write that succeeded
    lastSave,     \* the saveAnalytics call that returned last
    lastImport,   \* the body of the last POST /analytics/import
    remoteRead    \* how the remote read of this process's load ended

sanVars == <<sanInput, sanOutput, sanTwice, sanPc>>

toolVars == <<toolRun>>

\* what the server's handlers leave alone
pureVars == <<sanVars, toolVars>>

envVars == <<clock, localFile, remoteData>>

procVars ==
    <<processId, firebaseInitialized, DEFAULT_PLAUSIBLE_API_KEY, analytics,
      loadPc, shutdown, pendingSaves, mcpServers, servers, requests>>

histVars ==
    <<history, tracked, fresh, saved, lastSave, lastImport, remoteRead>>

serverVars == <<envVars, procVars, histVars>>

vars == <<pureVars, serverVars>>

-----------------------------------------------------------------------------
(* JSON values: a tagged pair, so that any two values can be compared.     *)

JNull == <<"null">>
JNum(n) == <<"num", n>>

\* a JavaScript number is JNum(n) or JsInfinity (a literal such as 1e999 in a
\* JSON body parses to Infinity); null is JNull
JsInfinity == <<"Infinity">>

\* undefined + 1 and every sum with it
JsNaN == <<"NaN">>

\* ToNumber of a finite number or null
NumberOf(v) == IF v = JNull THEN 0 ELSE v[2]

\* a + b (also a += b and a++) on numbers and null
JsAdd(a, b) ==
    IF a = JsNaN \/ b = JsNaN THEN JsNaN
    ELSE IF a = JsInfinity \/ b = JsInfinity THEN JsInfinity
    ELSE JNum(NumberOf(a) + NumberOf(b))

\* if (v) on a number, null or undefined
Truthy(v) == v # JNull /\ v # JNum(0) /\ v # JsNaN

\* JSON.stringify of a number: a number that is not finite is written null
NumberText(v) == IF v = JsInfinity \/ v = JsNaN THEN JNull ELSE v
JArr(elems) == <<"arr", elems>>
JObj(entries) == <<"obj", entries>>

IsArr(x) == x[1] = "arr"
IsObj(x) == x[1] = "obj"

Min(a, b) == IF a < b THEN a ELSE b

SeqsUpTo(S, n) == UNION {[1..m -> S] : m \in 0..n}

\* obj[key] = value on a JavaScript object: an existing key keeps its
\* position and takes the new value, a new key is appended.
ObjectAssign(entries, key, value) ==
    IF \E i \in 1..Len(entries) : entries[i][1] = key
    THEN [entries EXCEPT
            ![CHOOSE i \in 1..Len(entries) : entries[i][1] = key] = <<key, value>>]
    ELSE Append(entries, <<key, value>>)

HasKey(entries, key) == \E i \in 1..Len(entries) : entries[i][1] = key

\* obj[key] for a key that is present
Lookup(entries, key) ==
    entries[CHOOSE i \in 1..Len(entries) : entries[i][1] = key][2]

-----------------------------------------------------------------------------
(* sanitizeKey / sanitizeObject                                            *)

\* the character class of the regular expression /[.#$/\[\]]/g
InvalidKeyChars == {".", "#", "$", "/", "[", "]"}

\* a sanitizeKey without the g flag: only the first match is replaced
sanitizeKeyFirstOnly(key) ==
    [i \in 1..Len(key) |->
        IF /\ key[i] \in InvalidKeyChars
           /\ \A j \in 1..(i - 1) : key[j] \notin InvalidKeyChars
        THEN "_" ELSE key[i]]

sanitizeKey(key) ==
    [i \in 1..Len(key) |-> IF key[i] \in InvalidKeyChars THEN "_" ELSE key[i]]

RECURSIVE sanitizeObject(_)
RECURSIVE SanitizeEntries(_, _)

\* the for-loop of sanitizeObject over the first n entries of Object.entries
SanitizeEntries(entries, n) ==
    IF n = 0 THEN <<>>
    ELSE ObjectAssign(SanitizeEntries(entries, n - 1),
                      sanitizeKey(entries[n][1]),
                      sanitizeObject(entries[n][2]))

sanitizeObject(obj) ==
    IF ~IsArr(obj) /\ ~IsObj(obj) THEN obj
    ELSE IF IsArr(obj)
         THEN JArr([i \in 1..Len(obj[2]) |-> sanitizeObject(obj[2][i])])
         ELSE JObj(SanitizeEntries(obj[2], Len(obj[2])))

-----------------------------------------------------------------------------
(* Configuration and strings                                               *)

MAX_RECENT_CALLS == 100

ShortAgentLen == 50    \* substring(0, 50) of the user agent
KeyPrefixLen == 8      \* apiKey.substring(0, 8) in the credentials key

DEFAULT_PLAUSIBLE_API_URL ==
    <<"h","t","t","p","s",":","/","/","p","l","a","u","s","i","b","l","e",".","i","o">>

Empty == <<>>          \* '' and undefined alike: both are falsy under ||
Unknown == <<"u","n","k","n","o","w","n">>
DemoKey == <<"d","e","m","o","-","k","e","y">>

GET == <<"G","E","T">>
POST == <<"P","O","S","T">>

EP_ROOT == <<"/">>
EP_HEALTH == <<"/","h","e","a","l","t","h">>
EP_ANALYTICS == <<"/","a","n","a","l","y","t","i","c","s">>
EP_TOOLS == EP_ANALYTICS \o <<"/","t","o","o","l","s">>
EP_DASHBOARD == EP_ANALYTICS \o <<"/","d","a","s","h","b","o","a","r","d">>
EP_IMPORT == EP_ANALYTICS \o <<"/","i","m","p","o","r","t">>
EP_MCP == <<"/","m","c","p">>

\* the app.get routes that only record the request and answer
GetEndpoints == {EP_ROOT, EP_HEALTH, EP_ANALYTICS, EP_TOOLS, EP_DASHBOARD}

DiscoveryMethods == {"initialize", "tools/list", "notifications/initialized"}

\* a || b on strings
Or(a, b) == IF a # Empty THEN a ELSE b

\* s.substring(0, n)
Substring0(s, n) == SubSeq(s, 1, Min(n, Len(s)))

\* s.split(',')[0]
SplitFirst(s) ==
    IF \E i \in 1..Len(s) : s[i] = ","
    THEN SubSeq(s, 1, (CHOOSE i \in 1..Len(s) :
                          s[i] = "," /\ \A j \in 1..(i - 1) : s[j] # ",") - 1)
    ELSE s

\* s.trim()
Trim(s) ==
    IF \A i \in 1..Len(s) : s[i] = " " THEN Empty
    ELSE SubSeq(s,
                CHOOSE i \in 1..Len(s) :
                    s[i] # " " /\ \A j \in 1..(i - 1) : s[j] = " ",
                CHOOSE i \in 1..Len(s) :
                    s[i] # " " /\ \A j \in (i + 1)..Len(s) : s[j] = " ")

-----------------------------------------------------------------------------
(* Time: the wall clock counts ticks; an ISO timestamp is modelled by its  *)
(* tick, and its first 13 characters (date and hour) by isoHour.           *)

TicksPerHour == 100

DigitChars == <<"0","1","2","3","4","5","6","7","8","9">>

isoHour(t) ==
    <<"2","0","2","6","-","1","1","-","0","5","T",
      DigitChars[(((t \div TicksPerHour) % 24) \div 10) + 1],
      DigitChars[(((t \div TicksPerHour) % 24) % 10) + 1]>>

-----------------------------------------------------------------------------
(* Analytics recorder                                                      *)

\* the initial value of the module variable analytics
DefaultAnalytics(now) ==
    [ serverStartTime    |-> now,
      totalRequests      |-> JNum(0),
      totalToolCalls     |-> JNum(0),
      requestsByMethod   |-> <<>>,
      requestsByEndpoint |-> <<>>,
      toolCalls          |-> <<>>,
      recentToolCalls    |-> <<>>,
      clientsByIp        |-> <<>>,
      clientsByUserAgent |-> <<>>,
      hourlyRequests     |-> <<>> ]

\* m[key] = (m[key] || 0) + 1 that forgets the previous count
IncrOverwrite(m, key) == ObjectAssign(m, key, 1)

\* the name of the accessor every object literal inherits
PROTO == <<"_","_","p","r","o","t","o","_","_">>

\* m[key] = (m[key] || 0) + 1 on a mapping that is an object literal (or
\* comes from JSON.parse or Firebase): the read follows the prototype
\* chain.  For the key "__proto__" it gives Object.prototype, which is
\* truthy; adding 1 gives a text, and assigning a text to __proto__ is
\* ignored, so the mapping is left as it is.  (The keys naming the other
\* members of Object.prototype are not among the inputs.)
Incr(m, key) ==
    IF key = PROTO THEN m
    ELSE ObjectAssign(m, key, (IF HasKey(m, key) THEN Lookup(m, key) ELSE 0) + 1)

\* (req.headers['x-forwarded-for'])?.split(',')[0]?.trim() || req.ip || 'unknown'
ClientIp(req) == Or(Trim(SplitFirst(req.xff)), Or(req.ip, Unknown))

\* (req.headers['user-agent'] || 'unknown').substring(0, 50)
ShortAgent(req) == Substring0(Or(req.ua, Unknown), ShortAgentLen)

\* a.f++ : a field that is undefined becomes NaN
PlusPlus(a, f) ==
    IF f \in DOMAIN a THEN [a EXCEPT ![f] = JsAdd(@, JNum(1))]
    ELSE a @@ (f :> JsNaN)

\* a statement a.f[key] = (a.f[key] || 0) + 1 raises a TypeError when a.f is
\* undefined
Raises(a, steps) == \E i \in 1..Len(steps) : steps[i][1] \notin DOMAIN a

RECURSIVE IncrEach(_, _)
\* the statements a.f[key] = (a.f[key] || 0) + 1 of steps, run in order up to
\* the first that raises
IncrEach(a, steps) ==
    IF steps = <<>> \/ Head(steps)[1] \notin DOMAIN a THEN a
    ELSE IncrEach([a EXCEPT ![Head(steps)[1]] = Incr(@, Head(steps)[2])],
                  Tail(steps))

\* the mappings trackRequest counts in, in the order of its statements, each
\* with the key it counts under
TrackSteps(req, endpoint, now) ==
    << <<"requestsByMethod", req.method>>,
       <<"requestsByEndpoint", endpoint>>,
       <<"clientsByIp", ClientIp(req)>>,
       <<"clientsByUserAgent", ShortAgent(req)>>,
       <<"hourlyRequests", isoHour(now)>> >>

trackRequest(a, req, endpoint, now) ==
    IncrEach(PlusPlus(a, "totalRequests"), TrackSteps(req, endpoint, now))

\* a cap that is never applied
CapRecentNever(calls) == calls

\* a cap that drops the newest record instead of the oldest
CapRecentShift(calls) ==
    IF Len(calls) > MAX_RECENT_CALLS THEN SubSeq(calls, 2, Len(calls))
    ELSE calls

\* the cap of recentToolCalls: pop() once the length exceeds the maximum
CapRecent(calls) ==
    IF Len(calls) > MAX_RECENT_CALLS THEN SubSeq(calls, 1, Len(calls) - 1)
    ELSE calls

trackToolCall(a, toolName, req, now) ==
    LET counted == IncrEach(PlusPlus(a, "totalToolCalls"),
                            << <<"toolCalls", toolName>> >>)
    IN IF Raises(a, << <<"toolCalls">>, <<"recentToolCalls">> >>) THEN counted
       ELSE [counted EXCEPT
                !.recentToolCalls =
                    CapRecent(<<[ tool      |-> toolName,
                                  timestamp |-> now,
                                  clientIp  |-> ClientIp(req),
                                  userAgent |-> ShortAgent(req) ]>> \o @)]

\* whether the /mcp handler records a tool call for the request
IsToolCall(req) == req.mcpMethod = "tools/call" /\ req.toolName # Empty

\* a handler that records the tool call only when an API key was supplied
TrackMcpWithKeyOnly(a, req, now) ==
    IF /\ IsToolCall(req)
       /\ Or(req.qApiKey, Or(req.hApiKey, DEFAULT_PLAUSIBLE_API_KEY)) # Empty
    THEN trackToolCall(trackRequest(a, req, EP_MCP, now), req.toolName, req, now)
    ELSE trackRequest(a, req, EP_MCP, now)

\* lines 599-604 of the /mcp handler: the request is recorded, and so is the
\* tool call when the body is a tools/call with a name (and trackRequest has
\* not raised)
TrackMcp(a, req, now) ==
    IF IsToolCall(req) /\ ~Raises(a, TrackSteps(req, EP_MCP, now))
    THEN trackToolCall(trackRequest(a, req, EP_MCP, now), req.toolName, req, now)
    ELSE trackRequest(a, req, EP_MCP, now)

-----------------------------------------------------------------------------------------------------------------------------------------------------
(* Dual-mode persistence                                                   *)

Absent == <<"absent">>

\* a local file that exists and cannot be read or is not valid JSON
Corrupt == <<"corrupt">>

\* a persisted snapshot
File(snapshot) == <<"file", snapshot>>

IsPresent(f) == f[1] = "file"

\* JSON.stringify(analytics, null, 2): the text is modelled by the JSON value
\* it denotes.  Strings, finite numbers, sequences and mappings are written
\* as they are; a total that is not a finite number is written null.
JsonStringify(a) ==
    [a EXCEPT !.totalRequests = NumberText(@),
              !.totalToolCalls = NumberText(@)]

\* a mapping of counts as a JSON value, and back
MappingJson(m) == JObj([i \in 1..Len(m) |-> <<m[i][1], JNum(m[i][2])>>])
JsonMapping(j) == [i \in 1..Len(j[2]) |-> <<j[2][i][1], j[2][i][2][2]>>]

SanitizeMapping(m) == JsonMapping(sanitizeObject(MappingJson(m)))

\* sanitizeObject(analytics): the keys of the aggregate and of the call
\* records are fixed names without any replaced character and the other
\* values are scalars, so the six mappings are where it acts
sanitizeAnalytics(a) ==
    [a EXCEPT
        !.requestsByMethod = SanitizeMapping(@),
        !.requestsByEndpoint = SanitizeMapping(@),
        !.toolCalls = SanitizeMapping(@),
        !.clientsByIp = SanitizeMapping(@),
        !.clientsByUserAgent = SanitizeMapping(@),
        !.hourlyRequests = SanitizeMapping(@)]

ScalarFields == {"serverStartTime", "totalRequests", "totalToolCalls"}

ContainerFields ==
    {"requestsByMethod", "requestsByEndpoint", "toolCalls", "recentToolCalls",
     "clientsByIp", "clientsByUserAgent", "hourlyRequests"}

\* ref.set(...) takes the value: a number that is not finite is refused
Storable(a) ==
    /\ a.totalRequests \notin {JsInfinity, JsNaN}
    /\ a.totalToolCalls \notin {JsInfinity, JsNaN}

\* ref.set({...analytics, lastUpdated}): the document Firebase keeps; a
\* null, an empty mapping or an empty sequence is not stored
FirebaseStored(a, now) ==
    [f \in {"serverStartTime"}
            \cup {g \in ScalarFields \ {"serverStartTime"} : a[g] # JNull}
            \cup {g \in ContainerFields : a[g] # <<>>}
            \cup {"lastUpdated"} |->
        IF f = "lastUpdated" THEN now ELSE a[f]]

\* FirebaseAnalytics.loadAnalytics on a document that is there: every field
\* of Analytics, with its zero value when the document does not hold it
FillDefaults(data, now) ==
    [f \in ScalarFields \cup ContainerFields |->
        IF f \in DOMAIN data THEN data[f]
        ELSE IF f = "serverStartTime" THEN now
        ELSE IF f \in ScalarFields THEN JNum(0)
        ELSE <<>>]

\* a local branch of loadAnalytics that falls back to the defaults
LoadLocalOrDefaults(a, file, now) ==
    IF IsPresent(file) THEN file[2] ELSE DefaultAnalytics(now)

\* a local branch of loadAnalytics that stamps serverStartTime anew
LoadLocalRestamp(a, file, now) ==
    IF IsPresent(file) THEN [file[2] EXCEPT !.serverStartTime = now] ELSE a

\* the local branch of loadAnalytics on the state a: the file is parsed and
\* adopted when it exists (its serverStartTime is a non-empty string, so it
\* is kept); a file that cannot be read or parsed raises into the catch,
\* which leaves the state as it is
LoadLocal(a, file, now) ==
    IF IsPresent(file)
    THEN [f \in DOMAIN file[2] \cup {"serverStartTime"} |->
             IF f \in DOMAIN file[2] THEN file[2][f] ELSE now]
    ELSE a

\* s.reverse()
Reverse(s) == [i \in 1..Len(s) |-> s[Len(s) + 1 - i]]

\* the history that goes with an adopted state: its log, oldest first
AdoptedHistory(a) ==
    IF "recentToolCalls" \in DOMAIN a THEN Reverse(a.recentToolCalls) ELSE <<>>

MaxPendingSaves == 1
MaxSignals == 1         \* signals a process receives (SpecPersist)
MaxShutdownSignals == 2 \* signals a process receives (SpecShutdown)

NoSave == [by |-> "none", remote |-> "none", local |-> "none", raised |-> FALSE]

\* the saveAnalytics calls of the shutdown handler that await the remote write
ShutdownSaves == {i \in 1..Len(pendingSaves) : pendingSaves[i].by = "shutdown"}

\* fs.writeFileSync(ANALYTICS_FILE, JSON.stringify(analytics, null, 2)) on
\* the state a (ok: the write succeeded; it raises into the catch otherwise)
WriteLocal(a, ok) ==
    /\ localFile' = IF ok THEN File(JsonStringify(a)) ELSE localFile
    /\ saved' = IF ok THEN File(a) ELSE saved

\* saveAnalytics() called by the caller `by` on the state a: with Firebase
\* the sanitized copy is taken and its write awaited; without, the local
\* file is written at once (localOk: the write succeeded) and the call returns
SaveAnalytics(a, localOk, by) ==
    IF firebaseInitialized
    THEN /\ pendingSaves' =
               Append(pendingSaves, [snapshot |-> sanitizeAnalytics(a), by |-> by])
         /\ UNCHANGED <<localFile, remoteData, saved, lastSave>>
    ELSE /\ WriteLocal(a, localOk)
         /\ lastSave' = [ by |-> by, remote |-> "none",
                          local |-> IF localOk THEN "ok" ELSE "failed",
                          raised |-> FALSE ]
         /\ UNCHANGED <<pendingSaves, remoteData>>

CanSave ==
    firebaseInitialized =>
        Len(pendingSaves) - Cardinality(ShutdownSaves) < MaxPendingSaves

-----------------------------------------------------------------------------
(* The process: construction, startup load, timer, shutdown, restart       *)

MaxRestarts == 1
MaxRequests == 2       \* requests handled, over all processes

\* the requests handled by the earlier process behind a persisted snapshot,
\* one per tick from tick 0; the first process of a specification starts at
\* the tick after them
PriorRunCalls == 99
ClockStart == PriorRunCalls

Running == shutdown # "exited"

\* what loadAnalytics() has done when the module body has run: with
\* Firebase it is at its first await and the state is the defaults; without,
\* it has run to its end and the local file, when there is one, is adopted
StartupLoad(fb, file, now) ==
    IF fb
    THEN [ loadPc |-> "remote", analytics |-> DefaultAnalytics(now),
           history |-> <<>>, fresh |-> TRUE, remoteRead |-> "pending" ]
    ELSE [ loadPc |-> "done",
           analytics |-> LoadLocal(DefaultAnalytics(now), file, now),
           history |-> IF IsPresent(file) THEN AdoptedHistory(file[2]) ELSE <<>>,
           fresh |-> ~IsPresent(file), remoteRead |-> "none" ]

\* the process ends (exit, kill or crash) and a new one is started on the
\* same machine: the files and the remote document stay, the memory does not
Restart ==
    /\ processId < MaxRestarts
    /\ processId' = processId + 1
    /\ shutdown' = "none"
    /\ pendingSaves' = <<>>
    /\ mcpServers' = <<>>
    /\ servers' = <<>>
    /\ requests' = <<>>
    /\ tracked' = 0
    /\ lastSave' = NoSave
    /\ lastImport' = Absent
    /\ LET start == StartupLoad(firebaseInitialized, localFile, clock)
       IN /\ loadPc' = start.loadPc
          /\ analytics' = start.analytics
          /\ history' = start.history
          /\ fresh' = start.fresh
          /\ remoteRead' = start.remoteRead
    /\ UNCHANGED <<envVars, pureVars, firebaseInitialized,
                   DEFAULT_PLAUSIBLE_API_KEY, saved>>

\* the awaited remote read of loadAnalytics completes: readOk is false when
\* the read raised (FirebaseAnalytics.loadAnalytics then returns null)
LoadRemoteDone(readOk) ==
    /\ Running
    /\ loadPc = "remote"
    /\ loadPc' = "done"
    /\ remoteRead' = IF ~readOk THEN "raised"
                     ELSE IF IsPresent(remoteData) THEN "data" ELSE "empty"
    /\ IF readOk /\ IsPresent(remoteData)
       THEN /\ analytics' = FillDefaults(remoteData[2], clock)
            /\ history' = AdoptedHistory(FillDefaults(remoteData[2], clock))
            /\ fresh' = FALSE
       ELSE /\ analytics' = LoadLocal(analytics, localFile, clock)
            /\ history' = IF IsPresent(localFile)
                          THEN AdoptedHistory(localFile[2]) ELSE history
            /\ fresh' = (fresh /\ ~IsPresent(localFile))
    /\ UNCHANGED <<envVars, pureVars, processId, firebaseInitialized,
                   DEFAULT_PLAUSIBLE_API_KEY, shutdown, pendingSaves,
                   mcpServers, servers, requests, tracked, saved, lastSave,
                   lastImport>>

\* a timer that clearInterval does not stop
TimerActiveAlways == TRUE

\* saveInterval is set, and not yet cleared by gracefulShutdown
TimerActive == shutdown = "none"

\* the setInterval callback: saveAnalytics()
TimerSave(localOk) ==
    /\ Running
    /\ TimerActive
    /\ CanSave
    /\ SaveAnalytics(analytics, localOk, "timer")
    /\ UNCHANGED <<clock, pureVars, processId, firebaseInitialized,
                   DEFAULT_PLAUSIBLE_API_KEY, analytics, loadPc, shutdown,
                   mcpServers, servers, requests, history, tracked, fresh,
                   lastImport, remoteRead>>

\* a saveAnalytics that gives up when the remote write has failed
RemoteWriteDoneOrGiveUp(remoteOk, localOk) ==
    /\ Running
    /\ pendingSaves # <<>>
    /\ LET save == Head(pendingSaves)
           stored == remoteOk /\ Storable(save.snapshot)
       IN /\ remoteData' =
                IF stored THEN File(FirebaseStored(save.snapshot, clock))
                ELSE remoteData
          /\ WriteLocal(analytics, stored /\ localOk)
          /\ lastSave' = [ by |-> save.by,
                           remote |-> IF stored THEN "ok" ELSE "failed",
                           local |-> IF ~stored THEN "none"
                                     ELSE IF localOk THEN "ok" ELSE "failed",
                           raised |-> ~stored ]
          /\ shutdown' = IF save.by = "shutdown" THEN "exited" ELSE shutdown
          /\ pendingSaves' =
                IF save.by = "shutdown" THEN <<>> ELSE Tail(pendingSaves)
    /\ UNCHANGED <<clock, pureVars, processId, firebaseInitialized,
                   DEFAULT_PLAUSIBLE_API_KEY, analytics, loadPc, mcpServers,
                   servers, requests, history, tracked, fresh, lastImport,
                   remoteRead>>

\* the remote write awaited by the oldest saveAnalytics call completes
\* (remoteOk: ref.set succeeded; its failure is caught inside
\* FirebaseAnalytics.saveAnalytics), and that call goes on to write the local
\* file from the analytics of that moment and returns; when it is the call
\* of gracefulShutdown, process.exit(0) follows
RemoteWriteDone(remoteOk, localOk) ==
    /\ Running
    /\ pendingSaves # <<>>
    /\ LET save == Head(pendingSaves)
           stored == remoteOk /\ Storable(save.snapshot)
       IN /\ remoteData' =
                IF stored THEN File(FirebaseStored(save.snapshot, clock))
                ELSE remoteData
          /\ WriteLocal(analytics, localOk)
          /\ lastSave' = [ by |-> save.by,
                           remote |-> IF stored THEN "ok" ELSE "failed",
                           local |-> IF localOk THEN "ok" ELSE "failed",
                           raised |-> FALSE ]
          /\ shutdown' = IF save.by = "shutdown" THEN "exited" ELSE shutdown
          /\ pendingSaves' =
                IF save.by = "shutdown" THEN <<>> ELSE Tail(pendingSaves)
    /\ UNCHANGED <<clock, pureVars, processId, firebaseInitialized,
                   DEFAULT_PLAUSIBLE_API_KEY, analytics, loadPc, mcpServers,
                   servers, requests, history, tracked, fresh, lastImport,
                   remoteRead>>

\* a gracefulShutdown without process.exit
ShutdownWithoutExit(localOk, maxSignals) ==
    /\ Running
    /\ Cardinality(ShutdownSaves) < maxSignals
    /\ SaveAnalytics(analytics, localOk, "shutdown")
    /\ shutdown' = "saving"
    /\ UNCHANGED <<clock, pureVars, processId, firebaseInitialized,
                   DEFAULT_PLAUSIBLE_API_KEY, analytics, loadPc, mcpServers,
                   servers, requests, history, tracked, fresh, lastImport,
                   remoteRead>>

\* gracefulShutdown(signal): the timer is cleared and saveAnalytics() is
\* called and awaited; process.exit(0) follows its return, at once when
\* there is no remote write to await
Shutdown(localOk, maxSignals) ==
    /\ Running
    /\ Cardinality(ShutdownSaves) < maxSignals
    /\ SaveAnalytics(analytics, localOk, "shutdown")
    /\ shutdown' = IF firebaseInitialized THEN "saving" ELSE "exited"
    /\ UNCHANGED <<clock, pureVars, processId, firebaseInitialized,
                   DEFAULT_PLAUSIBLE_API_KEY, analytics, loadPc, mcpServers,
                   servers, requests, history, tracked, fresh, lastImport,
                   remoteRead>>

-----------------------------------------------------------------------------
(* Request handlers                                                        *)

\* a request: the HTTP method, the client (X-Forwarded-For, peer address,
\* User-Agent), the credentials in the query and in the headers, and the
\* JSON-RPC body (method and params.name)
Request(method, client, creds, body) ==
    [ method    |-> method,
      xff       |-> client.xff,
      ip        |-> client.ip,
      ua        |-> client.ua,
      qApiKey   |-> creds.qApiKey,
      hApiKey   |-> creds.hApiKey,
      qApiUrl   |-> creds.qApiUrl,
      hApiUrl   |-> creds.hApiUrl,
      mcpMethod |-> body.mcpMethod,
      toolName  |-> body.toolName ]

NoCreds == [qApiKey |-> Empty, hApiKey |-> Empty, qApiUrl |-> Empty, hApiUrl |-> Empty]
NoBody == [mcpMethod |-> "", toolName |-> Empty]

\* app.get('/'), '/health', '/analytics', '/analytics/tools' and
\* '/analytics/dashboard': the request is recorded and answered from the
\* state, which is otherwise left alone
HttpGet(client, endpoint, maxReq) ==
    /\ Running
    /\ clock - ClockStart < maxReq
    /\ endpoint \in GetEndpoints
    /\ analytics' =
          trackRequest(analytics, Request(GET, client, NoCreds, NoBody),
                       endpoint, clock)
    /\ clock' = clock + 1
    /\ tracked' = tracked + 1
    /\ UNCHANGED <<localFile, remoteData, pureVars, processId,
                   firebaseInitialized, DEFAULT_PLAUSIBLE_API_KEY, loadPc,
                   shutdown, pendingSaves, mcpServers, servers, requests,
                   history, fresh, saved, lastSave, lastImport, remoteRead>>

\* a merge that takes the totals of the body in place of the sums
ImportMergeOverwrite(a, body) ==
    [a EXCEPT
        !.totalRequests = IF Truthy(body.totalRequests)
                          THEN body.totalRequests ELSE @,
        !.totalToolCalls = IF Truthy(body.totalToolCalls)
                           THEN body.totalToolCalls ELSE @]

\* a merge that spreads the whole body over the state
ImportMergeSpread(a, body) ==
    [a EXCEPT
        !.serverStartTime = 0,
        !.totalRequests = IF Truthy(body.totalRequests)
                          THEN JsAdd(@, body.totalRequests) ELSE @,
        !.totalToolCalls = IF Truthy(body.totalToolCalls)
                           THEN JsAdd(@, body.totalToolCalls) ELSE @]

\* the additive merge of POST /analytics/import: a field that is absent,
\* null or 0 is falsy and adds nothing
ImportMerge(a, body) ==
    [a EXCEPT
        !.totalRequests = IF Truthy(body.totalRequests)
                          THEN JsAdd(@, body.totalRequests) ELSE @,
        !.totalToolCalls = IF Truthy(body.totalToolCalls)
                           THEN JsAdd(@, body.totalToolCalls) ELSE @]

\* app.post('/analytics/import'): the request is recorded, the two totals of
\* the body are added, saveAnalytics() is called
Import(client, body, localOk, maxReq) ==
    /\ Running
    /\ clock - ClockStart < maxReq
    /\ CanSave
    /\ LET a == ImportMerge(
                    trackRequest(analytics,
                                 Request(POST, client, NoCreds, NoBody),
                                 EP_IMPORT, clock),
                    body)
       IN /\ analytics' = a
          /\ SaveAnalytics(a, localOk, "import")
    /\ clock' = clock + 1
    /\ tracked' = tracked + 1
    /\ fresh' = FALSE
    /\ lastImport' = File(body)
    /\ UNCHANGED <<pureVars, processId, firebaseInitialized,
                   DEFAULT_PLAUSIBLE_API_KEY, loadPc, shutdown, mcpServers,
                   servers, requests, history, remoteRead>>

\* the precedence of the two sources swapped
ResolveHeaderFirst(query, header, default) == Or(header, Or(query, default))

\* query || header || default
Resolve(query, header, default) == Or(query, Or(header, default))

\* a key made of the whole API key
CredentialsKeyWhole(apiUrl, apiKey) == apiUrl \o <<":">> \o apiKey

\* `${apiUrl}:${apiKey.substring(0, 8)}`
CredentialsKey(apiUrl, apiKey) ==
    apiUrl \o <<":">> \o Substring0(apiKey, KeyPrefixLen)

\* a discovery test that forgets tools/list
IsDiscoveryRequestNoList(apiKey, mcpMethod) ==
    apiKey = Empty /\ mcpMethod \in {"initialize", "notifications/initialized"}

\* !hasCredentials && mcpMethod && (one of the three discovery methods)
IsDiscoveryRequest(apiKey, mcpMethod) ==
    apiKey = Empty /\ mcpMethod \in DiscoveryMethods

\* a validation that lets every request through
MissingApiKeyNever(apiKey) == FALSE

\* !apiKey
MissingApiKey(apiKey) == apiKey = Empty

\* createMcpServer(apiUrl, apiKey): a new McpServer around a new client
createMcpServer(apiUrl, apiKey) == [apiUrl |-> apiUrl, apiKey |-> apiKey]

\* a lookup that finds nothing
CacheHitNever(cache, credentialsKey) == FALSE

\* mcpServers.get(credentialsKey) gives a server
CacheHit(cache, credentialsKey) == HasKey(cache, credentialsKey)

\* the request was answered before any transport was constructed
NoTransport == [transport |-> "none", transportId |-> 0]

\* new StreamableHTTPServerTransport({sessionIdGenerator: undefined}): an
\* object of its own, named by its rank among the transports constructed by
\* the process so far
NewTransport(reqs) ==
    Cardinality({j \in 1..Len(reqs) : reqs[j].transportId # 0}) + 1

\* no error has been raised while the request is handled
NoError == [error |-> "none", started |-> FALSE, rpcError |-> 0]

\* app.all('/mcp') up to its first await: the request (and tool call) is
\* recorded, the credentials are resolved, and the request is given a demo
\* server, or the 400 response, or the cached server of its credentials key
\* (constructed and stored when the key is new), and a transport of its own
McpRequest(req, maxReq) ==
    /\ Running
    /\ clock - ClockStart < maxReq
    /\ analytics' = TrackMcp(analytics, req, clock)
    /\ history' =
          IF IsToolCall(req)
          THEN Append(history, [ tool      |-> req.toolName,
                                 timestamp |-> clock,
                                 clientIp  |-> ClientIp(req),
                                 userAgent |-> ShortAgent(req) ])
          ELSE history
    /\ clock' = clock + 1
    /\ tracked' = tracked + 1
    /\ LET apiKey == Resolve(req.qApiKey, req.hApiKey, DEFAULT_PLAUSIBLE_API_KEY)
           apiUrl == Resolve(req.qApiUrl, req.hApiUrl, DEFAULT_PLAUSIBLE_API_URL)
           credentialsKey == CredentialsKey(apiUrl, apiKey)
           handled == [ req |-> req, apiKey |-> apiKey, apiUrl |-> apiUrl,
                        connection |-> "open" ]
           transport == [ transport |-> "open",
                          transportId |-> NewTransport(requests) ]
       IN IF IsDiscoveryRequest(apiKey, req.mcpMethod)
          THEN /\ servers' = Append(servers, createMcpServer(apiUrl, DemoKey))
               /\ mcpServers' = mcpServers
               /\ requests' = Append(requests,
                     handled @@ NoError @@ transport @@
                                [ outcome |-> "demo", status |-> 0,
                                  responses |-> 0,
                                  server |-> Len(servers) + 1,
                                  upstream |-> FALSE ])
          ELSE IF MissingApiKey(apiKey)
          THEN /\ UNCHANGED <<servers, mcpServers>>
               /\ requests' = Append(requests,
                     handled @@ NoError @@ NoTransport @@
                                [ outcome |-> "rejected", status |-> 400,
                                  responses |-> 1,
                                  server |-> 0,
                                  upstream |-> FALSE ])
          ELSE IF CacheHit(mcpServers, credentialsKey)
          THEN /\ UNCHANGED <<servers, mcpServers>>
               /\ requests' = Append(requests,
                     handled @@ NoError @@ transport @@
                                [ outcome |-> "served", status |-> 0,
                                  responses |-> 0,
                                  server |-> Lookup(mcpServers, credentialsKey),
                                  upstream |-> FALSE ])
          ELSE /\ servers' = Append(servers, createMcpServer(apiUrl, apiKey))
               /\ mcpServers' =
                     ObjectAssign(mcpServers, credentialsKey, Len(servers) + 1)
               /\ requests' = Append(requests,
                     handled @@ NoError @@ transport @@
                                [ outcome |-> "served", status |-> 0,
                                  responses |-> 0,
                                  server |-> Len(servers) + 1,
                                  upstream |-> FALSE ])
    /\ UNCHANGED <<localFile, remoteData, pureVars, processId,
                   firebaseInitialized, DEFAULT_PLAUSIBLE_API_KEY, loadPc,
                   shutdown, pendingSaves, fresh, saved, lastSave, lastImport,
                   remoteRead>>

\* the tools whose handler calls the Plausible client
UpstreamTools ==
    { <<"l","i","s","t","_","s","i","t","e","s">> }

\* the rest of the /mcp handler for request i: the server is connected to
\* the transport and the transport handles the request and answers it; a
\* tools/call of a tool that uses the client makes the upstream call
McpServe(i) ==
    /\ Running
    /\ i \in 1..Len(requests)
    /\ requests[i].status = 0
    /\ requests[i].transport = "open"
    /\ requests' =
          [requests EXCEPT
              ![i].status = 200,
              ![i].responses = @ + 1,
              ![i].upstream = /\ requests[i].req.mcpMethod = "tools/call"
                              /\ requests[i].req.toolName \in UpstreamTools]
    /\ UNCHANGED <<envVars, pureVars, processId, firebaseInitialized,
                   DEFAULT_PLAUSIBLE_API_KEY, analytics, loadPc, shutdown,
                   pendingSaves, mcpServers, servers, histVars>>

InternalError == -32603

\* a catch that does not look at res.headersSent
HeadersSentNever(r) == FALSE

\* res.headersSent
HeadersSent(r) == r.responses > 0

\* an error is raised inside the try of the /mcp handler for request i,
\* whose awaited connect or handleRequest has not returned: the transport
\* had started the response or not (started) when it was raised; the catch
\* logs it and sends the 500 JSON-RPC error unless the headers are sent
McpFail(i, started) ==
    /\ Running
    /\ i \in 1..Len(requests)
    /\ requests[i].status = 0
    /\ requests[i].error = "none"
    /\ LET raised == IF started
                     THEN [requests[i] EXCEPT !.status = 200, !.responses = @ + 1]
                     ELSE requests[i]
           caught == IF ~HeadersSent(raised)
                     THEN [raised EXCEPT !.status = 500, !.responses = @ + 1,
                                         !.rpcError = InternalError]
                     ELSE raised
       IN requests' =
             [requests EXCEPT
                 ![i] = [caught EXCEPT !.error = "caught", !.started = started]]
    /\ UNCHANGED <<envVars, pureVars, processId, firebaseInitialized,
                   DEFAULT_PLAUSIBLE_API_KEY, analytics, loadPc, shutdown,
                   pendingSaves, mcpServers, servers, histVars>>

\* a handler that registers the close listener on the cached-server path only
TransportOnCloseServedOnly(r) ==
    IF r.outcome = "served" /\ r.transport = "open" THEN "closed" ELSE r.transport

\* res.on('close', () => { transport.close(); }): what becomes of the
\* transport of the request r when its response emits 'close'
TransportOnClose(r) == IF r.transport = "open" THEN "closed" ELSE r.transport

\* the client connection of request i closes: the response emits 'close'
\* and the listener the handler registered, when it did, closes the transport
McpClose(i) ==
    /\ Running
    /\ i \in 1..Len(requests)
    /\ requests[i].connection = "open"
    /\ requests' = [requests EXCEPT ![i].connection = "closed",
                                    ![i].transport = TransportOnClose(requests[i])]
    /\ UNCHANGED <<envVars, pureVars, processId, firebaseInitialized,
                   DEFAULT_PLAUSIBLE_API_KEY, analytics, loadPc, shutdown,
                   pendingSaves, mcpServers, servers, histVars>>

-----------------------------------------------------------------------------
(* The tool handlers and the Plausible client                              *)

\* the tools createMcpServer registers: the client method the handler calls
\* and the shape of its error report
Tool(name, calls, report) == [name |-> name, calls |-> calls, report |-> report]

RegisteredTools ==
    { Tool("query_stats", "request", "error"),
      Tool("get_realtime_visitors", "request", "error"),
      Tool("get_aggregate_stats", "request", "error"),
      Tool("get_timeseries", "request", "error"),
      Tool("get_breakdown", "request", "error"),
      Tool("send_event", "sendEvent", "error"),
      Tool("send_pageview", "sendEvent", "error"),
      Tool("list_sites", "request", "error"),
      Tool("get_site", "request", "error"),
      Tool("create_site", "request", "error"),
      Tool("update_site", "request", "error"),
      Tool("delete_site", "request", "error"),
      Tool("create_shared_link", "request", "error"),
      Tool("list_goals", "request", "error"),
      Tool("create_goal", "request", "error"),
      Tool("delete_goal", "request", "error"),
      Tool("check_plausible_health", "request", "health"),
      Tool("hello", "none", "none") }

\* what fetch gives: it rejects (a network error), or resolves with a
\* response of some status whose body can or cannot be read
NetworkError == [kind |-> "network", status |-> 0, body |-> "", readable |-> FALSE]

HttpResponse(status, body, readable) ==
    [kind |-> "http", status |-> status, body |-> body, readable |-> readable]

NoResponse == [kind |-> "none", status |-> 0, body |-> "", readable |-> FALSE]

StatusText(status) ==
    CASE status = 200 -> "OK"
      [] status = 202 -> "Accepted"
      [] status = 401 -> "Unauthorized"
      [] status = 500 -> "Internal Server Error"
      [] OTHER -> ""

ValidJson == "{\"results\":[]}"
InvalidJson == "<html>"

UpstreamResponses ==
    {NetworkError} \cup
    { HttpResponse(st, b, r) :
        st \in {200, 202, 401, 500}, b \in {"", ValidJson, InvalidJson},
        r \in BOOLEAN }

Throw(message) == <<"throw", message>>
Return(value) == <<"return", value>>

\* a response.ok that holds for every status
ResponseOkAlways(status) == TRUE

\* response.ok
ResponseOk(status) == status \in 200..299

\* `... error (${response.status} ${response.statusText}): ${errorBody}`,
\* the text as the sequence of its parts
ErrorMessage(prefix, resp) ==
    << prefix, ToString(resp.status), " ", StatusText(resp.status), "): ",
       IF resp.readable THEN resp.body ELSE "" >>

FetchFailed == <<"fetch failed">>
BodyUnreadable == <<"body stream failed">>
JsonSyntaxError == <<"Unexpected token in JSON">>

\* PlausibleClient.request on the outcome of its fetch
ClientRequest(resp) ==
    IF resp.kind = "network" THEN Throw(FetchFailed)
    ELSE IF ~ResponseOk(resp.status)
    THEN Throw(ErrorMessage("Plausible API error (", resp))
    ELSE IF resp.status = 202 THEN Return("{\"status\":\"accepted\"}")
    ELSE IF ~resp.readable THEN Throw(BodyUnreadable)
    ELSE IF resp.body = "" THEN Return("{}")
    ELSE IF resp.body = ValidJson THEN Return(resp.body)
    ELSE Throw(JsonSyntaxError)

\* PlausibleClient.sendEvent on the outcome of its fetch
ClientSendEvent(resp) ==
    IF resp.kind = "network" THEN Throw(FetchFailed)
    ELSE IF ~ResponseOk(resp.status) /\ resp.status # 202
    THEN Throw(ErrorMessage("Plausible Events API error (", resp))
    ELSE Return("{\"status\":\"accepted\",\"message\":\"Event recorded successfully\"}")

\* the try/catch of a tool handler around the awaited client call
HandlerResult(tool, outcome) ==
    IF outcome[1] = "throw"
    THEN [ isError |-> TRUE,
           text |-> IF tool.report = "health"
                    THEN <<"{\"status\":\"unhealthy\",\"error\":\"">>
                            \o outcome[2] \o <<"\"}">>
                    ELSE <<"Error: ">> \o outcome[2] ]
    ELSE [ isError |-> FALSE,
           text |-> IF tool.report = "health"
                    THEN <<"{\"status\":\"healthy\",\"response\":", outcome[2], "}">>
                    ELSE <<outcome[2]>> ]

NoResult == [isError |-> FALSE, text |-> <<>>]

ToolsIdle ==
    toolRun = [ pc |-> "idle", tool |-> Tool("", "none", "none"),
                response |-> NoResponse, result |-> NoResult,
                escaped |-> FALSE ]

\* a tools/call reaches the handler of tool: the hello tool answers at once,
\* every other handler calls the client and awaits it
CallTool(tool) ==
    /\ toolRun.pc = "idle"
    /\ toolRun' =
          IF tool.calls = "none"
          THEN [toolRun EXCEPT
                    !.pc = "returned", !.tool = tool,
                    !.result = [isError |-> FALSE,
                                text |-> <<"Hello from Plausible Analytics MCP!">>]]
          ELSE [toolRun EXCEPT !.pc = "awaiting", !.tool = tool]
    /\ UNCHANGED <<sanVars, serverVars>>

\* the fetch of the awaited client call settles and the handler returns
UpstreamResponds(resp) ==
    /\ toolRun.pc = "awaiting"
    /\ LET outcome == IF toolRun.tool.calls = "sendEvent"
                      THEN ClientSendEvent(resp) ELSE ClientRequest(resp)
       IN toolRun' =
             [toolRun EXCEPT
                 !.pc = "returned", !.response = resp,
                 !.result = HandlerResult(toolRun.tool, outcome)]
    /\ UNCHANGED <<sanVars, serverVars>>

-----------------------------------------------------------------------------
(* Inputs                                                                  *)

TOOL_HELLO == <<"h","e","l","l","o">>
TOOL_LIST_SITES == <<"l","i","s","t","_","s","i","t","e","s">>

\* X-Forwarded-For "1.2", peer "7", User-Agent "a/1"
ClientA ==
    [xff |-> <<"1",".","2">>, ip |-> <<"7">>, ua |-> <<"a","/","1">>]

\* X-Forwarded-For "1_2, 9" and no User-Agent: recorded as "1_2", "unknown"
ClientB ==
    [xff |-> <<"1","_","2",","," ","9">>, ip |-> <<"7">>, ua |-> Empty]

\* neither X-Forwarded-For nor a peer address, and a User-Agent of 51
\* characters: recorded as "unknown" and the first 50 characters
ClientC ==
    [xff |-> Empty, ip |-> Empty, ua |-> [i \in 1..(ShortAgentLen + 1) |-> "x"]]

\* a client that sends User-Agent: __proto__
ClientP ==
    [xff |-> <<"1",".","2">>, ip |-> <<"7">>, ua |-> PROTO]

\* API keys: KEY_1 and KEY_2 share their first 8 characters, KEY_3 is short
KEY_1 == <<"k","e","y","-","0","0","0","0","A">>
KEY_2 == <<"k","e","y","-","0","0","0","0","B">>
KEY_3 == <<"k","3">>

URL_1 == <<"h","t","t","p",":","/","/","a">>
URL_2 == <<"h","t","t","p",":","/","/","b">>

Creds(qKey, hKey, qUrl, hUrl) ==
    [qApiKey |-> qKey, hApiKey |-> hKey, qApiUrl |-> qUrl, hApiUrl |-> hUrl]

ToolCall(name) == [mcpMethod |-> "tools/call", toolName |-> name]
Rpc(method) == [mcpMethod |-> method, toolName |-> Empty]

-----------------------------------------------------------------------------
(* The persisted snapshot of an earlier process that handled PriorRunCalls *)
(* requests, all of them PriorRequest, at the ticks 0, 1, 2, ...           *)

PriorRequest ==
    Request(POST, ClientA, Creds(KEY_1, Empty, Empty, Empty), ToolCall(TOOL_HELLO))

\* the mapping that holds key with count n once n > 0
Counted(key, n) == IF n = 0 THEN <<>> ELSE << <<key, n>> >>

\* the analytics of that process after its first n requests
PriorState(n) ==
    [ serverStartTime    |-> 0,
      totalRequests      |-> JNum(n),
      totalToolCalls     |-> JNum(n),
      requestsByMethod   |-> Counted(POST, n),
      requestsByEndpoint |-> Counted(EP_MCP, n),
      toolCalls          |-> Counted(TOOL_HELLO, n),
      recentToolCalls    |->
          [i \in 1..n |->
              [ tool |-> TOOL_HELLO, timestamp |-> n - i,
                clientIp |-> <<"1",".","2">>, userAgent |-> <<"a","/","1">> ]],
      clientsByIp        |-> Counted(<<"1",".","2">>, n),
      clientsByUserAgent |-> Counted(<<"a","/","1">>, n),
      hourlyRequests     |-> Counted(isoHour(0), n) ]

\* PriorState is what the handler makes of those requests, one after the other
PriorStateIsRecorded ==
    /\ PriorState(0) = DefaultAnalytics(0)
    /\ \A n \in 1..PriorRunCalls :
          TrackMcp(PriorState(n - 1), PriorRequest, n - 1) = PriorState(n)

PriorFile == File(JsonStringify(PriorState(PriorRunCalls)))

PriorDocument ==
    File(FirebaseStored(sanitizeAnalytics(PriorState(PriorRunCalls)), PriorRunCalls))

-----------------------------------------------------------------------------
(* Specifications of the server                                            *)

SanitizeIdle ==
    /\ sanInput = JNull
    /\ sanOutput = JNull
    /\ sanTwice = JNull
    /\ sanPc = "idle"

\* the inputs of a specification are evaluated when its first state is,
\* before any step is taken
Evaluated(inputs) == \A x \in inputs : x = x

InputsReady(clientSet, bodySet, requestSet) ==
    /\ Evaluated(clientSet)
    /\ Evaluated(bodySet)
    /\ Evaluated(requestSet)
    /\ Evaluated({NoCreds})
    /\ Evaluated({NoBody})
    /\ Evaluated({NoError})
    /\ Evaluated({NoTransport})
    /\ Evaluated({NoSave})

\* the first process, constructed on a machine whose local file and remote
\* document are drawn from files and documents
InitServer(envKeys, files, documents) ==
    /\ SanitizeIdle
    /\ ToolsIdle
    /\ clock = ClockStart
    /\ firebaseInitialized \in BOOLEAN
    /\ DEFAULT_PLAUSIBLE_API_KEY \in envKeys
    /\ localFile \in files
    /\ remoteData \in IF firebaseInitialized THEN documents ELSE {Absent}
    /\ processId = 0
    /\ shutdown = "none"
    /\ pendingSaves = <<>>
    /\ mcpServers = <<>>
    /\ servers = <<>>
    /\ requests = <<>>
    /\ tracked = 0
    /\ saved = IF IsPresent(localFile) THEN localFile ELSE Absent
    /\ lastSave = NoSave
    /\ lastImport = Absent
    /\ LET start == StartupLoad(firebaseInitialized, localFile, clock)
       IN /\ loadPc = start.loadPc
          /\ analytics = start.analytics
          /\ history = start.history
          /\ fresh = start.fresh
          /\ remoteRead = start.remoteRead

\* every step of the server, for requests drawn from the given sets and
\* writes and reads that end as outcomes says (TRUE: done, FALSE: failed)
ServerNext(clients, endpoints, importers, bodies, mcps, outcomes, maxReq) ==
    \/ \E c \in clients, e \in endpoints : HttpGet(c, e, maxReq)
    \/ \E c \in importers, b \in bodies, ok \in outcomes :
          Import(c, b, ok, maxReq)
    \/ \E r \in mcps : McpRequest(r, maxReq)
    \/ \E i \in 1..maxReq : McpServe(i)
    \/ \E i \in 1..maxReq : McpClose(i)
    \/ \E ok \in outcomes : TimerSave(ok)
    \/ \E rok, lok \in outcomes : RemoteWriteDone(rok, lok)
    \/ \E ok \in outcomes : LoadRemoteDone(ok)
    \/ Restart

ImportBodies ==
    { [totalRequests |-> JNum(0), totalToolCalls |-> JNull],
      [totalRequests |-> JNum(2), totalToolCalls |-> JNum(1)],
      [totalRequests |-> JNum(-2), totalToolCalls |-> JNum(-3)] }

\* Spec: a machine without files; two clients whose addresses and user
\* agents meet after sanitizing and one whose user agent is __proto__; one
\* set of credentials; every write and read succeeds
McpRequests ==
    { Request(POST, ClientA, Creds(KEY_1, Empty, Empty, Empty), b) :
        b \in {ToolCall(TOOL_HELLO), Rpc("initialize")} }

Init ==
    /\ InputsReady({ClientA, ClientB, ClientP}, ImportBodies, McpRequests)
    /\ InitServer({Empty}, {Absent}, {Absent})

Next ==
    ServerNext({ClientA, ClientB, ClientP}, {EP_HEALTH}, {ClientA}, ImportBodies,
               McpRequests, {TRUE}, MaxRequests)

Spec == Init /\ [][Next]_vars

\* SpecLog: a machine that holds the snapshot of an earlier process, whose
\* log is one record short of the cap; every read and write succeeds
LogRequests ==
    { Request(POST, ClientC, Creds(KEY_1, Empty, Empty, Empty), b) :
        b \in {ToolCall(TOOL_HELLO), ToolCall(TOOL_LIST_SITES)} }

LogBodies == {[totalRequests |-> JNum(2), totalToolCalls |-> JNum(1)]}

InitLog ==
    /\ InputsReady({ClientC}, LogBodies, LogRequests)
    /\ PriorStateIsRecorded
    /\ InitServer({Empty}, {PriorFile}, {PriorDocument})

NextLog ==
    ServerNext({ClientC}, {EP_ANALYTICS}, {ClientC}, LogBodies, LogRequests,
               {TRUE}, MaxRequests)

SpecLog == InitLog /\ [][NextLog]_vars

\* SpecMcp: the /mcp endpoint under every combination of credentials in the
\* query, in the headers and in the environment, with each JSON-RPC method;
\* no other endpoint is called and the save timer does not tick meanwhile
McpCredentials ==
    { Creds(qKey, hKey, qUrl, hUrl) :
        qKey \in {Empty, KEY_1}, hKey \in {Empty, KEY_2},
        qUrl \in {Empty, URL_1}, hUrl \in {Empty, URL_2} }

McpBodies ==
    { ToolCall(TOOL_LIST_SITES), Rpc("initialize"), Rpc("tools/list"),
      Rpc("notifications/initialized"), NoBody }

CredentialRequests ==
    { Request(POST, ClientA, c, b) : c \in McpCredentials, b \in McpBodies }

InitMcp ==
    /\ InputsReady({ClientA}, McpBodies, CredentialRequests)
    /\ InitServer({Empty, KEY_3}, {Absent}, {Absent})
    /\ ~firebaseInitialized

NextMcp ==
    \/ \E r \in CredentialRequests : McpRequest(r, MaxRequests)
    \/ \E i \in 1..MaxRequests : McpServe(i)
    \/ \E i \in 1..MaxRequests : McpClose(i)
    \/ Restart

SpecMcp == InitMcp /\ [][NextMcp]_vars

\* SpecTenants: /mcp requests of tenants whose API URL or API key holds a
\* colon: "http://a" with the key "k:ey-000", "http://a:k" with the key
\* "ey-000", and either with KEY_1
URL_PORT == URL_1 \o <<":","k">>
KEY_COLON == <<"k",":","e","y","-","0","0","0">>
KEY_REST == <<"e","y","-","0","0","0">>

TenantRequests ==
    { Request(POST, ClientA, Creds(Empty, k, u, Empty), Rpc("tools/list")) :
        k \in {KEY_1, KEY_COLON, KEY_REST}, u \in {URL_1, URL_PORT} }

InitTenants ==
    /\ InputsReady({ClientA}, {}, TenantRequests)
    /\ InitServer({Empty}, {Absent}, {Absent})
    /\ ~firebaseInitialized

NextTenants ==
    \/ \E r \in TenantRequests : McpRequest(r, MaxRequests)
    \/ \E i \in 1..MaxRequests : McpServe(i)
    \/ \E i \in 1..MaxRequests : McpClose(i)
    \/ Restart

SpecTenants == InitTenants /\ [][NextTenants]_vars

\* SpecMcpErr: /mcp requests with and without a key, during which the
\* server or the transport may raise, before or after the response started
ErrRequests ==
    { Request(POST, ClientA, Creds(k, Empty, Empty, Empty), b) :
        k \in {Empty, KEY_1}, b \in {ToolCall(TOOL_LIST_SITES), Rpc("initialize")} }

InitMcpErr ==
    /\ InputsReady({ClientA}, {}, ErrRequests)
    /\ InitServer({Empty}, {Absent}, {Absent})
    /\ ~firebaseInitialized

NextMcpErr ==
    \/ \E r \in ErrRequests : McpRequest(r, MaxRequests)
    \/ \E i \in 1..MaxRequests : McpServe(i)
    \/ \E i \in 1..MaxRequests : McpClose(i)
    \/ \E i \in 1..MaxRequests, started \in BOOLEAN : McpFail(i, started)
    \/ Restart

SpecMcpErr == InitMcpErr /\ [][NextMcpErr]_vars

\* SpecPersist: loading, saving and shutting down on a machine whose local
\* file is missing, unreadable or the snapshot of an earlier process, and
\* whose remote document is missing, that snapshot or the document of a
\* process that served only GET /health; reads and writes may fail
SmallRunCalls == 2

HealthOnlyState ==
    trackRequest(DefaultAnalytics(0), Request(GET, ClientA, NoCreds, NoBody),
                 EP_HEALTH, 0)

PersistFiles == {Absent, Corrupt, File(JsonStringify(PriorState(SmallRunCalls)))}

PersistDocuments ==
    { Absent,
      File(FirebaseStored(sanitizeAnalytics(PriorState(SmallRunCalls)), SmallRunCalls)),
      File(FirebaseStored(sanitizeAnalytics(HealthOnlyState), 1)) }

PersistBodies ==
    { [totalRequests |-> JNum(2), totalToolCalls |-> JNum(1)],
      [totalRequests |-> JsInfinity, totalToolCalls |-> JNull] }

InitPersist ==
    /\ InputsReady({ClientA}, PersistBodies, {})
    /\ InitServer({Empty}, PersistFiles, PersistDocuments)

NextPersist ==
    \/ HttpGet(ClientA, EP_HEALTH, MaxRequests)
    \/ \E b \in PersistBodies, ok \in BOOLEAN :
          Import(ClientA, b, ok, MaxRequests)
    \/ \E ok \in BOOLEAN : TimerSave(ok)
    \/ \E rok, lok \in BOOLEAN : RemoteWriteDone(rok, lok)
    \/ \E ok \in BOOLEAN : LoadRemoteDone(ok)
    \/ \E ok \in BOOLEAN : Shutdown(ok, MaxSignals)
    \/ Restart

SpecPersist == InitPersist /\ [][NextPersist]_vars

\* SpecRemote: the processes of SpecPersist in remote mode, when nothing
\* is ever imported
InitRemote ==
    /\ InitPersist
    /\ firebaseInitialized

NextRemote ==
    \/ HttpGet(ClientA, EP_HEALTH, MaxRequests)
    \/ \E ok \in BOOLEAN : TimerSave(ok)
    \/ \E rok, lok \in BOOLEAN : RemoteWriteDone(rok, lok)
    \/ \E ok \in BOOLEAN : LoadRemoteDone(ok)
    \/ \E ok \in BOOLEAN : Shutdown(ok, MaxSignals)
    \/ Restart

SpecRemote == InitRemote /\ [][NextRemote]_vars

\* SpecLoad: the startup load on a machine whose local file may also be
\* well-formed JSON that no process of this program wrote: the text {} or
\* an object that holds the two totals only; requests follow the load
EmptyObject == [f \in {} |-> JNull]

TotalsOnly == [totalRequests |-> JNum(1), totalToolCalls |-> JNum(0)]

LoadFiles == PersistFiles \cup {File(EmptyObject), File(TotalsOnly)}

InitLoad ==
    /\ InputsReady({ClientA}, {TotalsOnly}, {})
    /\ InitServer({Empty}, LoadFiles, PersistDocuments)

NextLoad ==
    \/ HttpGet(ClientA, EP_HEALTH, MaxRequests)
    \/ \E ok \in BOOLEAN : LoadRemoteDone(ok)
    \/ Restart

SpecLoad == InitLoad /\ [][NextLoad]_vars

\* SpecShutdown: signals, the timer and requests on a machine without
\* files, in either mode.  Every remote write that was started completes or
\* fails in the end; nothing else is assumed of the scheduling
InitShutdown ==
    /\ InputsReady({ClientA}, {}, {})
    /\ InitServer({Empty}, {Absent}, {Absent})

NextShutdown ==
    \/ HttpGet(ClientA, EP_HEALTH, MaxRequests)
    \/ \E ok \in BOOLEAN : TimerSave(ok)
    \/ \E rok, lok \in BOOLEAN : RemoteWriteDone(rok, lok)
    \/ \E ok \in BOOLEAN : LoadRemoteDone(ok)
    \/ \E ok \in BOOLEAN : Shutdown(ok, MaxShutdownSignals)
    \/ Restart

RemoteWritesComplete ==
    WF_vars(\E rok, lok \in BOOLEAN : RemoteWriteDone(rok, lok))

SpecShutdown == InitShutdown /\ [][NextShutdown]_vars /\ RemoteWritesComplete

-----------------------------------------------------------------------------
(* The values sanitizeObject is applied to                                 *)

MaxEntries == 2     \* entries of a mapping, elements of a sequence

SanKeys ==
    { <<"a", ".", "b">>, <<"a", "_", "b">>, <<"/", "x", "$">>, <<"#", "[", "]">> }

SanScalars == {JNum(1), JNum(2)}

DistinctKeys(entries) ==
    \A i, j \in 1..Len(entries) : i # j => entries[i][1] # entries[j][1]

ObjectsOver(keys, values, n) ==
    {JObj(e) : e \in {s \in SeqsUpTo(keys \X values, n) : DistinctKeys(s)}}

ArraysOver(values, n) == {JArr(s) : s \in SeqsUpTo(values, n)}

SanFlatObjects == ObjectsOver(SanKeys, SanScalars, MaxEntries)
SanSmallObjects == ObjectsOver(SanKeys, SanScalars, 1)

SanLevel1 == SanScalars \cup SanFlatObjects \cup ArraysOver(SanScalars, MaxEntries)

\* one container around a value: a mapping inside a sequence, a sequence or
\* a mapping inside a mapping
SanWrap(values) ==
    {JArr(<<x>>) : x \in values}
        \cup {JObj(<< <<k, x>> >>) : k \in SanKeys, x \in values}

SanLevel2 ==
    SanWrap(SanLevel1)
        \cup ObjectsOver(SanKeys, SanSmallObjects, 2)
        \cup ArraysOver(SanSmallObjects, 2)

SanLevel3 == SanWrap(SanWrap(SanLevel1))

SanInputs == SanLevel1 \cup SanLevel2 \cup SanLevel3

-----------------------------------------------------------------------------
(* Specification SpecSanitize: sanitizeObject applied once and twice       *)

\* no process is running while sanitizeObject is looked at on its own
ServerIdle ==
    /\ clock = 0
    /\ localFile = Absent
    /\ remoteData = Absent
    /\ processId = 0
    /\ firebaseInitialized = FALSE
    /\ DEFAULT_PLAUSIBLE_API_KEY = Empty
    /\ analytics = DefaultAnalytics(0)
    /\ loadPc = "done"
    /\ shutdown = "none"
    /\ pendingSaves = <<>>
    /\ mcpServers = <<>>
    /\ servers = <<>>
    /\ requests = <<>>
    /\ history = <<>>
    /\ tracked = 0
    /\ fresh = TRUE
    /\ saved = Absent
    /\ lastSave = NoSave
    /\ lastImport = Absent
    /\ remoteRead = "none"

InitSanitize ==
    /\ sanInput \in SanInputs
    /\ sanOutput = JNull
    /\ sanTwice = JNull
    /\ sanPc = "input"
    /\ ToolsIdle
    /\ ServerIdle

SanitizeOnce ==
    /\ sanPc = "input"
    /\ sanOutput' = sanitizeObject(sanInput)
    /\ sanPc' = "once"
    /\ UNCHANGED <<sanInput, sanTwice, toolVars, serverVars>>

SanitizeTwice ==
    /\ sanPc = "once"
    /\ sanTwice' = sanitizeObject(sanOutput)
    /\ sanPc' = "twice"
    /\ UNCHANGED <<sanInput, sanOutput, toolVars, serverVars>>

NextSanitize == SanitizeOnce \/ SanitizeTwice

SpecSanitize == InitSanitize /\ [][NextSanitize]_vars

-----------------------------------------------------------------------------
(* Specification SpecTools: one call of a tool handler                     *)

InitTools ==
    /\ Evaluated(RegisteredTools)
    /\ Evaluated(UpstreamResponses)
    /\ Evaluated({NoResponse})
    /\ Evaluated({NoResult})
    /\ SanitizeIdle
    /\ ServerIdle
    /\ ToolsIdle

NextTools ==
    \/ \E tool \in RegisteredTools : CallTool(tool)
    \/ \E resp \in UpstreamResponses : UpstreamResponds(resp)

SpecTools == InitTools /\ [][NextTools]_vars

-----------------------------------------------------------------------------
(* Claims about the recent-calls log (specification SpecLog)               *)

\* C1: in every reachable state of the server, recentToolCalls holds at
\* most 100 entries.
C1_RecentCallsBounded ==
    Len(analytics.recentToolCalls) <= MAX_RECENT_CALLS

\* the log is full and a record has been evicted from it
C1_Witness ==
    /\ Len(analytics.recentToolCalls) = MAX_RECENT_CALLS
    /\ Len(history) > MAX_RECENT_CALLS

\* the last min(Len(h), 100) records of h
LastCalls(h) ==
    SubSeq(h, Len(h) - Min(Len(h), MAX_RECENT_CALLS) + 1, Len(h))

\* a tool call is recorded by the step
ToolCallRecorded ==
    /\ tracked' = tracked + 1
    /\ Len(history') = Len(history) + 1

\* C2: recording a tool call puts the new record at the head of
\* recentToolCalls, keeps the order of the records that were there, and drops
\* the oldest (last) one exactly when the log already held 100 records; so
\* the log is always the last min(n, 100) of the n calls recorded, newest
\* first.
C2_NewestFirstFifo ==
    /\ [](analytics.recentToolCalls = Reverse(LastCalls(history)))
    /\ [][ToolCallRecorded =>
            analytics'.recentToolCalls =
                <<history'[Len(history')]>> \o
                    (IF Len(analytics.recentToolCalls) = MAX_RECENT_CALLS
                     THEN SubSeq(analytics.recentToolCalls, 1,
                                 MAX_RECENT_CALLS - 1)
                     ELSE analytics.recentToolCalls)]_vars

\* 101 calls have been recorded: the 101st is at the head and the 1st is gone
C2_Witness ==
    /\ Len(history) = MAX_RECENT_CALLS + 1
    /\ analytics.recentToolCalls[1] = history[MAX_RECENT_CALLS + 1]
    /\ analytics.recentToolCalls[MAX_RECENT_CALLS] = history[2]
    /\ \A i \in 1..Len(analytics.recentToolCalls) :
          analytics.recentToolCalls[i] # history[1]

-----------------------------------------------------------------------------
(* Claims about the counters (specification Spec)                          *)

RECURSIVE SumCounts(_)
\* the sum of the values of a mapping
SumCounts(m) == IF m = <<>> THEN 0 ELSE m[1][2] + SumCounts(Tail(m))

\* C3: starting from the fresh default state, after N recorded requests
\* totalRequests is N and the values of requestsByMethod add up to N.
C3_FreshCounts ==
    fresh =>
        /\ analytics.totalRequests = JNum(tracked)
        /\ SumCounts(analytics.requestsByMethod) = tracked

\* two requests of different methods have been recorded on the fresh state
C3_Witness ==
    /\ fresh
    /\ tracked = 2
    /\ Len(analytics.requestsByMethod) = 2

\* a >= b on numbers (null counts as 0)
NotLess(a, b) ==
    \/ a = JsInfinity
    \/ a # JsInfinity /\ b # JsInfinity /\ NumberOf(a) >= NumberOf(b)

\* C4: totalRequests and totalToolCalls never decrease: across every step of
\* a process (a recorded request or tool call, an import with any body, the
\* completion of the startup load, a save) each counter is afterwards at
\* least what it was before.
C4_CountersNeverDecrease ==
    [][processId' = processId =>
          /\ NotLess(analytics'.totalRequests, analytics.totalRequests)
          /\ NotLess(analytics'.totalToolCalls, analytics.totalToolCalls)]_vars

-----------------------------------------------------------------------------
(* Claims about the /mcp endpoint (specification SpecMcp)                  *)

\* the step handles a /mcp request up to its first await
McpHandled == Len(requests') = Len(requests) + 1

\* no API key in the query, in the header or in the environment
NoKeySupplied(req) ==
    /\ req.qApiKey = Empty
    /\ req.hApiKey = Empty
    /\ DEFAULT_PLAUSIBLE_API_KEY = Empty

IsDiscoveryMethod(req) ==
    req.mcpMethod \in {"initialize", "tools/list", "notifications/initialized"}

\* the first 8 characters of a key, or the key when it is shorter
First8(key) == IF Len(key) <= 8 THEN key ELSE SubSeq(key, 1, 8)

\* C5: two /mcp requests with credentials, handled at any two points of a
\* process, whose apiUrl is equal and whose apiKeys agree on the first 8
\* characters are served by the same server instance, also when the apiKeys
\* differ later; the instance stored for a credentials key is never replaced
\* or removed.
C5_OneServerPerCredentialsKey ==
    /\ [](\A i, j \in 1..Len(requests) :
            /\ requests[i].outcome = "served"
            /\ requests[j].outcome = "served"
            /\ requests[i].apiUrl = requests[j].apiUrl
            /\ First8(requests[i].apiKey) = First8(requests[j].apiKey)
            => requests[i].server = requests[j].server)
    /\ [][processId' = processId =>
            /\ Len(mcpServers') >= Len(mcpServers)
            /\ \A k \in 1..Len(mcpServers) : mcpServers'[k] = mcpServers[k]
            /\ \A n \in 1..Len(servers) : servers'[n] = servers[n]]_vars

\* two requests whose keys differ after the 8th character share the server
\* that was built for the first
C5_Witness ==
    /\ Len(requests) = 2
    /\ requests[1].outcome = "served"
    /\ requests[2].outcome = "served"
    /\ requests[1].apiKey # requests[2].apiKey
    /\ requests[1].server = requests[2].server
    /\ servers[requests[2].server].apiKey = requests[1].apiKey
    /\ requests[1].status = 200
    /\ requests[2].status = 200

\* C6: a /mcp request for which no API key resolves and whose method is
\* initialize, tools/list or notifications/initialized is not rejected: it is
\* served by a newly constructed demo server, and the credential cache is the
\* same before and after the request.
C6_DiscoveryWithoutKey ==
    /\ [][McpHandled =>
            LET r == requests'[Len(requests')]
            IN NoKeySupplied(r.req) /\ IsDiscoveryMethod(r.req) =>
                  /\ r.status # 400
                  /\ r.transport = "open"
                  /\ Len(servers') = Len(servers) + 1
                  /\ r.server = Len(servers')
                  /\ servers'[r.server].apiKey = DemoKey
                  /\ mcpServers' = mcpServers]_vars
    /\ [](\A i \in 1..Len(requests) :
            NoKeySupplied(requests[i].req) /\ IsDiscoveryMethod(requests[i].req)
            => /\ requests[i].status \in {0, 200}
               /\ \A k \in 1..Len(mcpServers) :
                     mcpServers[k][2] # requests[i].server)

\* a tools/list without any key has been answered by a demo server while
\* the cache holds the server of an earlier request
C6_Witness ==
    /\ Len(requests) = 2
    /\ requests[1].outcome = "served"
    /\ NoKeySupplied(requests[2].req)
    /\ requests[2].req.mcpMethod = "tools/list"
    /\ requests[2].status = 200
    /\ requests[2].server = 2
    /\ Len(mcpServers) = 1

\* C7: a /mcp request for which no API key resolves and whose method is not
\* a discovery method is answered with HTTP 400, and on that path no server
\* is constructed, no transport is created, the credential cache is unchanged
\* and no upstream call is made.
C7_MissingKeyRejected ==
    /\ [][McpHandled =>
            LET r == requests'[Len(requests')]
            IN NoKeySupplied(r.req) /\ ~IsDiscoveryMethod(r.req) =>
                  /\ r.status = 400
                  /\ servers' = servers
                  /\ mcpServers' = mcpServers]_vars
    /\ [](\A i \in 1..Len(requests) :
            NoKeySupplied(requests[i].req) /\ ~IsDiscoveryMethod(requests[i].req)
            => /\ requests[i].status = 400
               /\ requests[i].server = 0
               /\ requests[i].transport = "none"
               /\ ~requests[i].upstream)

\* a tools/call of a tool that uses the client, sent without any key, has
\* been answered with 400, and so has a request without a method
C7_Witness ==
    /\ Len(requests) = 2
    /\ NoKeySupplied(requests[1].req)
    /\ requests[1].req.mcpMethod = "tools/call"
    /\ requests[1].req.toolName \in UpstreamTools
    /\ requests[1].status = 400
    /\ NoKeySupplied(requests[2].req)
    /\ requests[2].req.mcpMethod = ""
    /\ requests[2].status = 400
    /\ servers = <<>>

\* the value chosen among a query parameter, a header and a default
Chosen(query, header, default, value) ==
    /\ query # Empty => value = query
    /\ query = Empty /\ header # Empty => value = header
    /\ query = Empty /\ header = Empty => value = default

\* C8: for every /mcp request the API key used is the apiKey query parameter
\* if supplied, otherwise the X-Plausible-Api-Key header if supplied,
\* otherwise the environment default; the API URL is chosen in the same
\* order from the apiUrl query parameter, the X-Plausible-Api-Url header and
\* the default.  A server constructed for the request is given these two.
C8_CredentialPrecedence ==
    /\ [](\A i \in 1..Len(requests) :
            /\ Chosen(requests[i].req.qApiKey, requests[i].req.hApiKey,
                      DEFAULT_PLAUSIBLE_API_KEY, requests[i].apiKey)
            /\ Chosen(requests[i].req.qApiUrl, requests[i].req.hApiUrl,
                      DEFAULT_PLAUSIBLE_API_URL, requests[i].apiUrl))
    /\ [][McpHandled /\ Len(mcpServers') > Len(mcpServers) =>
            LET r == requests'[Len(requests')]
            IN /\ servers'[r.server].apiKey = r.apiKey
               /\ servers'[r.server].apiUrl = r.apiUrl]_vars

\* requests that carry both sources, only the header, and neither (with a
\* key in the environment) have been handled
C8_Witness ==
    /\ Len(requests) = 2
    /\ requests[1].req.qApiKey # Empty
    /\ requests[1].req.hApiKey # Empty
    /\ requests[1].req.qApiKey # requests[1].req.hApiKey
    /\ requests[1].req.qApiUrl = Empty
    /\ requests[1].req.hApiUrl # Empty
    /\ requests[1].apiKey = requests[1].req.qApiKey
    /\ requests[1].apiUrl = requests[1].req.hApiUrl
    /\ NoCreds = [f \in DOMAIN NoCreds |-> requests[2].req[f]]
    /\ requests[2].apiKey = DEFAULT_PLAUSIBLE_API_KEY
    /\ requests[2].apiKey # Empty
    /\ requests[2].apiUrl = DEFAULT_PLAUSIBLE_API_URL

-----------------------------------------------------------------------------
(* Claims about sanitizeObject (specification SpecSanitize)                *)

\* the key a claim expects: every '.', '#', '$', '/', '[' and ']' turned
\* into '_', every other character kept
UnderscoredKey(key) ==
    [i \in 1..Len(key) |->
        IF key[i] \in {".", "#", "$", "/", "[", "]"} THEN "_" ELSE key[i]]

RECURSIVE KeysClean(_)
\* no key of a mapping, at any depth, contains one of the six characters
KeysClean(x) ==
    IF IsArr(x) THEN \A i \in 1..Len(x[2]) : KeysClean(x[2][i])
    ELSE IF IsObj(x)
         THEN \A i \in 1..Len(x[2]) :
                /\ \A c \in 1..Len(x[2][i][1]) :
                      x[2][i][1][c] \notin {".", "#", "$", "/", "[", "]"}
                /\ KeysClean(x[2][i][2])
         ELSE TRUE

RECURSIVE Carried(_, _)
\* out is in with nothing but the keys changed: same number of entries at
\* every depth, and every value found under the key its own key turned into
Carried(in, out) ==
    IF IsArr(in)
    THEN /\ IsArr(out)
         /\ Len(out[2]) = Len(in[2])
         /\ \A i \in 1..Len(in[2]) : Carried(in[2][i], out[2][i])
    ELSE IF IsObj(in)
         THEN /\ IsObj(out)
              /\ Len(out[2]) = Len(in[2])
              /\ \A i \in 1..Len(in[2]) :
                    /\ HasKey(out[2], UnderscoredKey(in[2][i][1]))
                    /\ Carried(in[2][i][2],
                               Lookup(out[2], UnderscoredKey(in[2][i][1])))
         ELSE out = in

\* C9: for every mapping, at any nesting depth, sanitizeObject returns a
\* mapping whose keys hold none of '.', '#', '$', '/', '[', ']', with the
\* same number of entries and every value carried over to the key that its
\* original key was turned into.
C9_SanitizeKeepsContent ==
    sanPc # "input" => KeysClean(sanOutput) /\ Carried(sanInput, sanOutput)

\* C10: sanitizeObject is idempotent: sanitizing the sanitized value again
\* gives the sanitized value.
C10_SanitizeIdempotent ==
    sanPc = "twice" => sanTwice = sanOutput

\* a nested value whose keys were changed by the first pass has been
\* sanitized twice
C10_Witness ==
    /\ sanPc = "twice"
    /\ sanInput \in SanLevel3
    /\ sanOutput # sanInput
    /\ ~KeysClean(sanInput)

-----------------------------------------------------------------------------
(* Persistence: C11 .. C15                                                 *)

\* a new process starts in this step
ProcessStarts == processId' = processId + 1

\* C11: in local-file-only mode, the state a new process loads from the file
\* an earlier save wrote equals the state that save was called on, in every
\* field, serverStartTime included
C11_RoundTrip ==
    [][(ProcessStarts /\ ~firebaseInitialized /\ IsPresent(saved)
            /\ IsPresent(localFile))
          => analytics' = saved[2]]_vars

\* the startup load runs to its end in this step: at once when a process
\* starts without Firebase, when the awaited remote read completes otherwise
LoadCompletes ==
    \/ ProcessStarts /\ ~firebaseInitialized
    \/ processId' = processId /\ loadPc = "remote" /\ loadPc' = "done"

\* the state a is the document doc with every absent field at its zero value
ZeroFilled(a, doc) ==
    /\ \A f \in {"requestsByMethod", "requestsByEndpoint", "toolCalls",
                 "recentToolCalls", "clientsByIp", "clientsByUserAgent",
                 "hourlyRequests"} :
          a[f] = IF f \in DOMAIN doc THEN doc[f] ELSE <<>>
    /\ \A f \in {"totalRequests", "totalToolCalls"} :
          a[f] = IF f \in DOMAIN doc THEN doc[f] ELSE JNum(0)
    /\ "serverStartTime" \in DOMAIN doc => a.serverStartTime = doc.serverStartTime

\* C12: load adopts the remote document, absent fields zero-filled, when the
\* remote store is initialized and returns data, whatever the local file
\* holds; otherwise the content of the local file when there is one that can
\* be read; otherwise it leaves the state at the defaults
C12_LoadOrder ==
    /\ ~firebaseInitialized =>
          analytics = IF IsPresent(localFile) THEN localFile[2]
                      ELSE DefaultAnalytics(clock)
    /\ [][LoadCompletes =>
            IF firebaseInitialized /\ remoteRead' = "data"
            THEN ZeroFilled(analytics', remoteData[2])
            ELSE IF IsPresent(localFile) THEN analytics' = localFile[2]
            ELSE IF ProcessStarts THEN analytics' = DefaultAnalytics(clock)
            ELSE analytics' = analytics]_vars

\* the remote document was adopted, its absent fields zero-filled, although
\* a local file with another content was there
C12_Witness ==
    /\ remoteRead = "data"
    /\ tracked = 0
    /\ IsPresent(localFile)
    /\ IsPresent(remoteData)
    /\ "toolCalls" \notin DOMAIN remoteData[2]
    /\ analytics.toolCalls = <<>>
    /\ analytics.totalRequests = remoteData[2].totalRequests
    /\ analytics # localFile[2]

\* a stage of the load that completes in this step has failed: the remote
\* read raised, or the local file was turned to and cannot be read or parsed
LoadFails ==
    /\ LoadCompletes
    /\ \/ remoteRead' = "raised"
       \/ localFile = Corrupt /\ remoteRead' # "data"

\* the defaults of the process whose load completes in this step
StartDefaults ==
    IF ProcessStarts THEN DefaultAnalytics(clock)
    ELSE DefaultAnalytics(analytics.serverStartTime)

\* C13 as stated: when a stage of load fails (and nothing has been recorded
\* meanwhile), the state after the load is the defaults
C13_FailedLoadGivesDefaults ==
    [][(LoadFails /\ tracked = 0) => analytics' = StartDefaults]_vars

\* C13, amended: when a stage of load fails, load completes and the process
\* keeps running; after a remote read that raised, the local file is turned
\* to as when there is no remote data, and its content is adopted when it
\* can be read; in every other case load leaves the state as it was
C13_LoadFailures ==
    [][LoadFails =>
          /\ loadPc' = "done"
          /\ shutdown' # "exited"
          /\ IF IsPresent(localFile) THEN analytics' = localFile[2]
             ELSE IF ProcessStarts THEN analytics' = DefaultAnalytics(clock)
             ELSE analytics' = analytics]_vars

\* the remote read raised and the load went on to adopt the local file
C13_Witness ==
    /\ remoteRead = "raised"
    /\ loadPc = "done"
    /\ shutdown = "none"
    /\ tracked = 0
    /\ IsPresent(localFile)
    /\ analytics = localFile[2]
    /\ analytics.totalRequests # JNum(0)

\* a call of saveAnalytics returns in this step
SaveReturns ==
    /\ processId' = processId
    /\ \/ lastSave' # lastSave
       \/ localFile' # localFile
       \/ Len(pendingSaves') < Len(pendingSaves)

\* C14: every call of save attempts the write of the unsanitized state to
\* the local file, also after a remote write that failed, and neither
\* failure is raised out of save
C14_SaveWritesLocal ==
    [][SaveReturns =>
          /\ lastSave'.local \in {"ok", "failed"}
          /\ ~lastSave'.raised
          /\ lastSave'.local = "ok" =>
                localFile' = File(JsonStringify(analytics'))
          /\ lastSave'.local = "failed" => localFile' = localFile]_vars

\* a save whose remote write failed has written the local file, with the
\* keys of the state as they are in memory
C14_Witness ==
    /\ lastSave.remote = "failed"
    /\ lastSave.local = "ok"
    /\ ~lastSave.raised
    /\ localFile = File(JsonStringify(analytics))
    /\ sanitizeAnalytics(analytics) # analytics

\* a call of saveAnalytics made by the timer starts in this step
TimerSaveStarts ==
    \/ /\ Len(pendingSaves') > Len(pendingSaves)
       /\ pendingSaves'[Len(pendingSaves')].by = "timer"
    \/ /\ ~firebaseInitialized
       /\ lastSave' # lastSave
       /\ lastSave'.by = "timer"

\* the process exits in this step
ProcessExits == shutdown # "exited" /\ shutdown' = "exited"

\* C15: once the shutdown handler has begun, no save is started by the
\* timer; and the process exits only in the step in which the save called
\* by the shutdown handler returns, its local write attempted
C15_ShutdownOrder ==
    [][/\ (shutdown # "none" /\ processId' = processId) => ~TimerSaveStarts
       /\ ProcessExits =>
             /\ lastSave'.by = "shutdown"
             /\ lastSave'.local \in {"ok", "failed"}
             /\ pendingSaves' = <<>>]_vars

\* with Firebase, the process has exited after the save of the shutdown
\* handler wrote the remote document and the local file
C15_Witness ==
    /\ shutdown = "exited"
    /\ firebaseInitialized
    /\ lastSave = [by |-> "shutdown", remote |-> "ok", local |-> "ok",
                   raised |-> FALSE]
    /\ IsPresent(remoteData)
    /\ localFile = File(JsonStringify(analytics))

-----------------------------------------------------------------------------
(* Import: C16                                                             *)

Keys(m) == {m[i][1] : i \in 1..Len(m)}

CountOf(m, key) == IF HasKey(m, key) THEN Lookup(m, key) ELSE 0

\* the mapping after differs from the mapping before by one more for key
OneMoreFor(after, before, key) ==
    /\ CountOf(after, key) = CountOf(before, key) + 1
    /\ \A k \in (Keys(after) \cup Keys(before)) \ {key} :
          CountOf(after, k) = CountOf(before, k)

OneMore(after, before) == \E key \in Keys(after) : OneMoreFor(after, before, key)

\* POST /analytics/import is handled in this step
ImportHandled ==
    /\ processId' = processId
    /\ tracked' = tracked + 1
    /\ IsPresent(lastImport')
    /\ CountOf(analytics'.requestsByEndpoint, EP_IMPORT)
          = CountOf(analytics.requestsByEndpoint, EP_IMPORT) + 1

\* C16: an import with the totals r and t in its body (an absent total
\* counting as 0) leaves totalToolCalls at its previous value plus t and
\* totalRequests at its previous value plus r plus 1; toolCalls and
\* recentToolCalls are as before, and each per-key request mapping has one
\* more for the key of the import request and is otherwise as before
C16_ImportAdds ==
    [][ImportHandled =>
          LET r == NumberOf(lastImport'[2].totalRequests)
              t == NumberOf(lastImport'[2].totalToolCalls)
          IN /\ analytics'.totalToolCalls = JNum(analytics.totalToolCalls[2] + t)
             /\ analytics'.totalRequests = JNum(analytics.totalRequests[2] + r + 1)
             /\ analytics'.toolCalls = analytics.toolCalls
             /\ analytics'.recentToolCalls = analytics.recentToolCalls
             /\ analytics'.serverStartTime = analytics.serverStartTime
             /\ OneMoreFor(analytics'.requestsByMethod, analytics.requestsByMethod, POST)
             /\ OneMoreFor(analytics'.requestsByEndpoint,
                           analytics.requestsByEndpoint, EP_IMPORT)
             /\ OneMore(analytics'.clientsByIp, analytics.clientsByIp)
             /\ OneMore(analytics'.clientsByUserAgent, analytics.clientsByUserAgent)
             /\ OneMore(analytics'.hourlyRequests, analytics.hourlyRequests)]_vars

\* an import of 2 requests and 1 tool call was handled after one other
\* request: three more requests than were recorded, one more tool call
C16_Witness ==
    /\ lastImport = File([totalRequests |-> JNum(2), totalToolCalls |-> JNum(1)])
    /\ tracked = 2
    /\ analytics.totalRequests = JNum(4)
    /\ analytics.totalToolCalls = JNum(1)
    /\ analytics.toolCalls = <<>>
    /\ CountOf(analytics.requestsByEndpoint, EP_IMPORT) = 1

-----------------------------------------------------------------------------
(* Tool handlers: C17                                                      *)

\* the sequence part occurs in the sequence text
Carries(text, part) ==
    \E i \in 1..Len(text) :
        /\ i + Len(part) - 1 <= Len(text)
        /\ SubSeq(text, i, i + Len(part) - 1) = part

\* the upstream call failed: a network error or a response that is not 2xx
UpstreamFailed(resp) ==
    \/ resp.kind = "network"
    \/ resp.kind = "http" /\ (resp.status < 200 \/ resp.status > 299)

\* C17: when the upstream call of a tool handler has failed, the handler
\* has returned (nothing was raised out of it) a result with isError = TRUE
\* whose text carries the message of the error: the status, status text and
\* body of the response, or the message of the network error
C17_ToolErrorResult ==
    (toolRun.pc = "returned" /\ UpstreamFailed(toolRun.response)) =>
        /\ ~toolRun.escaped
        /\ toolRun.result.isError
        /\ IF toolRun.response.kind = "network"
           THEN Carries(toolRun.result.text, <<"fetch failed">>)
           ELSE /\ Carries(toolRun.result.text,
                           << ToString(toolRun.response.status), " ",
                              StatusText(toolRun.response.status) >>)
                /\ toolRun.response.readable =>
                      Carries(toolRun.result.text, <<toolRun.response.body>>)

\* send_event has returned the error result for a 401 with a body
C17_Witness ==
    /\ toolRun.pc = "returned"
    /\ toolRun.tool.name = "send_event"
    /\ toolRun.response = HttpResponse(401, InvalidJson, TRUE)
    /\ toolRun.result.isError
    /\ Carries(toolRun.result.text, <<"401", " ", "Unauthorized">>)

-----------------------------------------------------------------------------
(* Errors of the /mcp handler: C18                                         *)

-----------------------------------------------------------------------------
(* serverStartTime: C19                                                    *)

-----------------------------------------------------------------------------
(* Concurrent first use of a credentials key: C20                          *)

\* request i has its server and its handler has not answered yet
InFlight(i) ==
    /\ requests[i].outcome = "served"
    /\ requests[i].status = 0
    /\ requests[i].error = "none"

SameCredentialsKey(i, j) ==
    /\ requests[i].apiUrl = requests[j].apiUrl
    /\ First8(requests[i].apiKey) = First8(requests[j].apiKey)

\* the instances constructed for the credentials key of request i
BuiltFor(i) ==
    { n \in 1..Len(servers) :
        /\ servers[n].apiKey # DemoKey
        /\ servers[n].apiUrl = requests[i].apiUrl
        /\ First8(servers[n].apiKey) = First8(requests[i].apiKey) }

\* C20 as stated, for the interleaving it names: of two requests with the
\* same credentials key that are being handled at the same time, the later
\* one has an instance of its own, a duplicate of the first one's
C20_ConcurrentFirstUseBuildsDuplicate ==
    \A i, j \in 1..Len(requests) :
        (i < j /\ InFlight(i) /\ InFlight(j) /\ SameCredentialsKey(i, j))
            => requests[i].server # requests[j].server

\* C20, amended: in no interleaving is a second instance constructed for a
\* credentials key: requests with the same key that are being handled at the
\* same time have the one instance that was constructed for the key
C20_NoDuplicateOnConcurrentUse ==
    \A i, j \in 1..Len(requests) :
        (InFlight(i) /\ InFlight(j) /\ SameCredentialsKey(i, j))
            => /\ requests[i].server = requests[j].server
               /\ BuiltFor(i) = {requests[i].server}

\* two requests with the same credentials key are being handled at the
\* same time, with one instance between them
C20_Witness ==
    /\ Len(requests) = 2
    /\ InFlight(1)
    /\ InFlight(2)
    /\ SameCredentialsKey(1, 2)
    /\ requests[1].server = requests[2].server
    /\ Cardinality(BuiltFor(1)) = 1

-----------------------------------------------------------------------------
(* Claims about the transports of /mcp requests (specification SpecMcpErr) *)

\* the requests that were given a transport
WithTransport == {i \in 1..Len(requests) : requests[i].transportId # 0}

\* C21: every /mcp request that is not rejected for a missing credential has
\* exactly one transport, constructed for it and shared with no other
\* request, and a rejected one has none; once the connection of a request
\* has closed its transport is closed, and no transport is closed before
C21_OneTransportPerRequest ==
    \A i \in 1..Len(requests) :
        /\ (requests[i].outcome # "rejected") = (i \in WithTransport)
        /\ (i \in WithTransport) = (requests[i].transport # "none")
        /\ \A j \in WithTransport :
              j # i => requests[j].transportId # requests[i].transportId
        /\ i \in WithTransport =>
              (requests[i].connection = "closed")
                  = (requests[i].transport = "closed")

\* a discovery request whose connection and transport are closed, beside a
\* request on a cached server whose transport, another one, is still open
C21_Witness ==
    \E i, j \in 1..Len(requests) :
        /\ requests[i].outcome = "demo"
        /\ requests[i].connection = "closed"
        /\ requests[i].transport = "closed"
        /\ requests[j].outcome = "served"
        /\ requests[j].connection = "open"
        /\ requests[j].transport = "open"
        /\ requests[j].transportId # requests[i].transportId

-----------------------------------------------------------------------------
(* Consistency of the counters: C22, C23                                   *)

\* C22: starting from the fresh default state and with no import, in every
\* reachable state totalRequests equals the sum of the values of each of
\* requestsByEndpoint, clientsByIp, clientsByUserAgent and hourlyRequests,
\* and totalToolCalls equals the sum of the values of toolCalls.
C22_TotalsMatchMappings ==
    fresh =>
        /\ analytics.totalRequests = JNum(SumCounts(analytics.requestsByEndpoint))
        /\ analytics.totalRequests = JNum(SumCounts(analytics.clientsByIp))
        /\ analytics.totalRequests = JNum(SumCounts(analytics.clientsByUserAgent))
        /\ analytics.totalRequests = JNum(SumCounts(analytics.hourlyRequests))
        /\ analytics.totalToolCalls = JNum(SumCounts(analytics.toolCalls))

\* C23: in remote mode and with no import, the snapshot the remote store
\* holds, whichever save of whichever process wrote it, has per-endpoint
\* counts that add up to its totalRequests.
C23_RemoteSnapshotConsistent ==
    IsPresent(remoteData) =>
        LET doc == FillDefaults(remoteData[2], 0)
        IN doc.totalRequests = JNum(SumCounts(doc.requestsByEndpoint))

-----------------------------------------------------------------------------
(* Saves and the startup load: C24                                         *)

\* a save of the running process writes the remote document or the local file
SaveWrites ==
    /\ processId' = processId
    /\ remoteData' # remoteData \/ localFile' # localFile

\* C24: no save writes to the remote store or to the local file before the
\* startup load has completed, whatever the interleaving of the load with
\* the timer, POST /analytics/import and a shutdown signal.
C24_NoSaveBeforeLoad ==
    [][SaveWrites => loadPc = "done"]_vars

-----------------------------------------------------------------------------
(* The state after a load from the local file: C25                         *)

\* every field of the Analytics State is there, and the counters are numbers
WellTyped(a) ==
    /\ ScalarFields \cup ContainerFields \subseteq DOMAIN a
    /\ a.totalRequests # JNull
    /\ a.totalToolCalls # JNull

\* the startup load has completed and has taken the local file, which is
\* well-formed JSON
LoadedLocalFile ==
    /\ loadPc = "done"
    /\ IsPresent(localFile)
    /\ remoteRead # "data"

\* C25: after the startup load completes from any local file that is
\* well-formed JSON, every field of the Analytics State is present with its
\* type, so that recording a request or a tool call cannot raise.
C25_LoadedStateComplete ==
    LoadedLocalFile =>
        /\ WellTyped(analytics)
        /\ ~Raises(analytics, TrackSteps(PriorRequest, EP_MCP, clock))

-----------------------------------------------------------------------------
(* Tool calls of rejected requests: C26 (specification SpecMcpErr)         *)

\* the /mcp request handled in this step
Handled == requests'[Len(requests')]

\* the body of the request r is a tools/call that names a tool
NamesTool(r) == r.req.mcpMethod = "tools/call" /\ r.req.toolName # Empty

ToolCountersUnchanged ==
    /\ analytics'.totalToolCalls = analytics.totalToolCalls
    /\ analytics'.toolCalls = analytics.toolCalls
    /\ analytics'.recentToolCalls = analytics.recentToolCalls

\* C26 as claimed: a tools/call request rejected with HTTP 400 for a
\* missing API key leaves totalToolCalls, toolCalls and recentToolCalls
\* unchanged.
C26_RejectedCallNotCounted ==
    [][McpHandled /\ Handled.outcome = "rejected" => ToolCountersUnchanged]_vars

\* C26 as amended: every /mcp request whose body is a tools/call naming a
\* tool is counted once when it is handled, whether it is then served or
\* rejected with 400: totalToolCalls is one more, its record is put at the
\* head of recentToolCalls and toolCalls changes at the name of the tool
\* and nowhere else; any other /mcp request leaves the three unchanged.
C26_NamedCallsCounted ==
    [][McpHandled =>
          IF NamesTool(Handled)
          THEN /\ analytics'.totalToolCalls = JsAdd(analytics.totalToolCalls, JNum(1))
               /\ Head(analytics'.recentToolCalls).tool = Handled.req.toolName
               /\ Tail(analytics'.recentToolCalls)
                     = SubSeq(analytics.recentToolCalls, 1,
                              Len(analytics'.recentToolCalls) - 1)
               /\ \A k \in (Keys(analytics'.toolCalls) \cup Keys(analytics.toolCalls))
                             \ {Handled.req.toolName} :
                     CountOf(analytics'.toolCalls, k) = CountOf(analytics.toolCalls, k)
               /\ CountOf(analytics'.toolCalls, Handled.req.toolName)
                     = CountOf(analytics.toolCalls, Handled.req.toolName) + 1
          ELSE ToolCountersUnchanged]_vars

\* a tools/call without any API key was rejected with 400 and is counted
C26_Witness ==
    \E i \in 1..Len(requests) :
        /\ requests[i].outcome = "rejected"
        /\ requests[i].status = 400
        /\ NamesTool(requests[i])
        /\ analytics.totalToolCalls = JNum(1)
        /\ Len(analytics.recentToolCalls) = 1
        /\ CountOf(analytics.toolCalls, TOOL_LIST_SITES) = 1

-----------------------------------------------------------------------------
(* Separation of tenants: C27 (specification SpecTenants)                  *)

\* the requests i and j carry credentials that differ in the API URL or in
\* the first 8 characters of the API key
DifferentTenants(i, j) ==
    \/ requests[i].apiUrl # requests[j].apiUrl
    \/ First8(requests[i].apiKey) # First8(requests[j].apiKey)

\* C27: two credential pairs that differ in apiUrl or in the first 8
\* characters of apiKey never yield the same cache key, and so are never
\* served by the same cached server instance.
C27_TenantsSeparated ==
    \A i, j \in 1..Len(requests) :
        /\ requests[i].outcome = "served"
        /\ requests[j].outcome = "served"
        /\ DifferentTenants(i, j)
        => /\ CredentialsKey(requests[i].apiUrl, requests[i].apiKey)
                 # CredentialsKey(requests[j].apiUrl, requests[j].apiKey)
           /\ requests[i].server # requests[j].server

-----------------------------------------------------------------------------
(* One cached server, several transports: C28 (specification SpecMcpErr)   *)

\* the earlier requests handed to the cached server that also serves the
\* request handled in this step
EarlierOnSameServer ==
    {i \in 1..Len(requests) :
        requests[i].outcome = "served" /\ requests[i].server = Handled.server}

\* C28: a request connects its new transport to the cached server only when
\* the transport of every earlier request on that server has been closed,
\* so that the server is bound to at most one open transport at any time.
C28_OneOpenTransportPerServer ==
    [][McpHandled /\ Handled.outcome = "served" =>
          \A i \in EarlierOnSameServer : requests[i].transport # "open"]_vars

-----------------------------------------------------------------------------
(* The two snapshots of one save: C29 (specification SpecRemote)           *)

\* a call of saveAnalytics returns in this step, having written the remote
\* document and the local file
SaveWroteBoth ==
    /\ SaveReturns
    /\ lastSave'.remote = "ok"
    /\ lastSave'.local = "ok"

\* C29: in remote mode, the snapshot written to the remote store and the
\* snapshot written to the local file by one save invocation hold the same
\* totalRequests and totalToolCalls, however request handlers interleave
\* with that save.
C29_SaveSnapshotsAgree ==
    [][SaveWroteBoth =>
          /\ remoteData'[2].totalRequests = localFile'[2].totalRequests
          /\ remoteData'[2].totalToolCalls = localFile'[2].totalToolCalls]_vars

-----------------------------------------------------------------------------
(* Termination after a signal: C30 (specification SpecShutdown)            *)

\* the process p has received a signal and has not exited
ShuttingDown(p) == processId = p /\ shutdown = "saving"

\* the process p has exited, or has been ended from outside
Gone(p) == processId # p \/ shutdown = "exited"

\* C30: after a SIGTERM or SIGINT the process exits in the end, provided
\* every remote write that was started completes or fails; also when a
\* periodic save is in flight at the signal and when a second signal
\* arrives during the shutdown.
C30_SignalLeadsToExit ==
    \A p \in 0..MaxRestarts : ShuttingDown(p) ~> Gone(p)

\* a process in remote mode has exited after a signal, through a shutdown
\* save whose remote write failed
C30_Witness ==
    /\ firebaseInitialized
    /\ shutdown = "exited"
    /\ lastSave.by = "shutdown"
    /\ lastSave.remote = "failed"

====
